---- MODULE Spec2Model ----
(***************************************************************************)
(* Model of donmai (src/src/index.ts): the Result model, the attempt and   *)
(* error-handling contexts, the blocking engine Retry and the suspendable  *)
(* engine RetryAsync with their constructors, builders and run loops.      *)
(*                                                                         *)
(* JavaScript values are modelled as follows.                              *)
(*   - payloads (values, errors, faults, fallbacks) are strings, and the   *)
(*     value undefined is the string "undefined";                          *)
(*   - an optional property is a set: {} when it is undefined, {x} when    *)
(*     it holds x;                                                         *)
(*   - the number `attempts` is a fixed-point number counted in tenths     *)
(*     (29 is 2.9, -50 is -5, 30 is 3), so that non-integral counts exist; *)
(*   - a callback is the table of what it does: the unit of work maps the  *)
(*     attempt number of its context to an outcome, the fault handler is   *)
(*     "retry while ctx.attempt < retryBelow, otherwise stop or throw".    *)
(***************************************************************************)
EXTENDS Integers, Sequences, FiniteSets, TLC

VARIABLES
    engines,    \* the heap of engine objects, in order of creation
    made,       \* history: for each engine, the call that created it
    fn,         \* the unit of work handed to run
    run,        \* the run invocation: position, loop index, trace, outcome
    unwrapped,  \* what the caller got from the two unwraps of run's result
    peer        \* a second run invocation in flight, with its unit of work

vars == <<engines, made, fn, run, unwrapped, peer>>

----------------------------------------------------------------------------
(* Bounds of the model *)

MaxAttempts == 3
MaxDelay == 2
MaxEngines == 3

----------------------------------------------------------------------------
(* Numbers: `attempts` in tenths *)

Undefined == "undefined"

Num(k) == k * 10
IsInteger(x) == x % 10 = 0
Floor(x) == (x \div 10) * 10

DEFAULT_ATTEMPTS == 1

----------------------------------------------------------------------------
(* Result model *)

RunOk(value) == [ok |-> TRUE, value |-> value, error |-> Undefined]
RunError(error) == [ok |-> FALSE, value |-> Undefined, error |-> error]
RunOk_empty == RunOk(Undefined)
RunError_empty == RunError(Undefined)

\* What a call of unwrap does: hand out a payload, or throw an Error.
Gives(payload) == [throws |-> FALSE, payload |-> payload, fault |-> Undefined]
Raises(fault) == [throws |-> TRUE, payload |-> Undefined, fault |-> fault]

\* Variant: unwrap hands out the value field without looking at the variant.
RunOk_unwrap_unchecked(result) == Gives(result.value)

\* RunOk.unwrap(result)
RunOk_unwrap(result) ==
    IF ~result.ok
    THEN Raises("Error: Run ok cannot unwrap error variant")
    ELSE Gives(result.value)

\* RunError.unwrap(result)
RunError_unwrap(result) ==
    IF result.ok
    THEN Raises("Error: Run error cannot unwrap ok variant")
    ELSE Gives(result.error)

----------------------------------------------------------------------------
(* Contexts *)

RunContext(attempt) == [attempt |-> attempt]
RunContext_retry(ctx) == RunError_empty
RunContext_ok(ctx, value) == RunOk(value)

RunAsyncContext(attempt) == RunContext(attempt)

OnErrorContext(attempt, error) == [attempt |-> attempt, error |-> error]
OnErrorContext_retry(ctx) == RunOk_empty
\* Variant: stop always carries its argument.
OnErrorContext_stop_noDefault(ctx, error) == RunError(error)

OnErrorContext_stop(ctx, error) ==
    IF error # Undefined THEN RunError(error) ELSE RunError(ctx.error)

----------------------------------------------------------------------------
(* Callbacks: what a call of user code does *)

Returns(result) == [throws |-> FALSE, ret |-> result, fault |-> Undefined]
Throws(fault) == [throws |-> TRUE, ret |-> RunError_empty, fault |-> fault]

\* What the unit of work does on one attempt: return ctx.retry(), return
\* ctx.ok(arg), return a failure result with a payload of its own, or throw.
Do(what, arg) == [do |-> what, arg |-> arg]
OkValues == {"v1", "v2"}
WorkOutcomes ==
    {Do("retry", Undefined), Do("error", "e1"), Do("throw", "f1")}
        \cup {Do("ok", v) : v \in OkValues}

\* The unit of work is the table of what it does by ctx.attempt; at an attempt
\* number outside the table it retries.
CallFn(f, ctx) ==
    LET w == IF ctx.attempt \in DOMAIN f THEN f[ctx.attempt] ELSE Do("retry", Undefined)
    IN IF w.do = "throw" THEN Throws(w.arg)
       ELSE IF w.do = "ok" THEN Returns(RunContext_ok(ctx, w.arg))
       ELSE IF w.do = "error" THEN Returns(RunError(w.arg))
       ELSE Returns(RunContext_retry(ctx))

\* The fault handler: if (ctx.attempt < retryBelow) return ctx.retry();
\* otherwise return ctx.stop(arg) or throw arg. Within one run every answer
\* but the last is a retry, so this family produces every run a handler can.
CallHandler(h, ctx) ==
    IF ctx.attempt < h.retryBelow
    THEN Returns(OnErrorContext_retry(ctx))
    ELSE IF h.otherwise = "stop"
         THEN Returns(OnErrorContext_stop(ctx, h.arg))
         ELSE Throws(h.arg)

Handler(t, o, a) == [retryBelow |-> t, otherwise |-> o, arg |-> a]

----------------------------------------------------------------------------
(* Engines: constructors and builders *)

\* Variant: a non-integral count is kept as it is.
CoerceAttempts_noFloor(x) == IF x <= 0 THEN Num(DEFAULT_ATTEMPTS) ELSE x

\* The coercion both constructors apply to this.attempts.
CoerceAttempts(x) ==
    IF x <= 0
    THEN Num(DEFAULT_ATTEMPTS)
    ELSE IF ~IsInteger(x)
         THEN (IF Floor(x) # 0 THEN Floor(x) ELSE Num(DEFAULT_ATTEMPTS))
         ELSE x

Config(attempts, delayms) == [attempts |-> attempts, delayms |-> delayms]

\* new Retry(config). A missing count is undefined: it is neither <= 0 nor an
\* integer, and Math.floor(undefined) || DEFAULT_ATTEMPTS is DEFAULT_ATTEMPTS.
Retry_new(config) ==
    [kind |-> "Retry",
     attempts |-> IF config.attempts = {}
                  THEN Num(DEFAULT_ATTEMPTS)
                  ELSE CoerceAttempts(CHOOSE x \in config.attempts : TRUE),
     delayms |-> {},
     cfg |-> [fallback |-> Undefined, onError |-> {}]]

\* new RetryAsync(config)
RetryAsync_new(config) ==
    [kind |-> "RetryAsync",
     attempts |-> CoerceAttempts(IF config.attempts = {}
                                 THEN Num(DEFAULT_ATTEMPTS)
                                 ELSE CHOOSE x \in config.attempts : TRUE),
     delayms |-> IF config.delayms # {} /\ config.delayms # {0}
                    /\ (\A d \in config.delayms : d > 0)
                 THEN config.delayms
                 ELSE {},
     cfg |-> [fallback |-> Undefined, onError |-> {}]]

Retry_config(self) == Config({self.attempts}, {})

\* Variant: the delay is left out of the configuration of a clone.
RetryAsync_config_noDelay(self) == Config({self.attempts}, {})

RetryAsync_config(self) ==
    Config({self.attempts},
           IF self.delayms # {} /\ self.delayms # {0} THEN self.delayms ELSE {})

\* A method call gives the receiver as the call leaves it (self) and the
\* object it returns (ret).
Retry_onError(self, h) ==
    LET clone == Retry_new(Retry_config(self))
    IN [self |-> self,
        ret |-> [clone EXCEPT !.cfg = [fallback |-> self.cfg.fallback, onError |-> {h}]]]

\* Variant: fallback sets the fallback of the receiver as well.
Retry_fallback_mutates(self, fallback) ==
    LET clone == Retry_new(Retry_config(self))
    IN [self |-> [self EXCEPT !.cfg.fallback = fallback],
        ret |-> [clone EXCEPT !.cfg = [fallback |-> fallback, onError |-> self.cfg.onError]]]

Retry_fallback(self, fallback) ==
    LET clone == Retry_new(Retry_config(self))
    IN [self |-> self,
        ret |-> [clone EXCEPT !.cfg = [fallback |-> fallback, onError |-> self.cfg.onError]]]

\* Variant: the clone is given the handler and keeps the constructor's fallback.
RetryAsync_onError_dropsFallback(self, h) ==
    LET clone == RetryAsync_new(RetryAsync_config(self))
    IN [self |-> self,
        ret |-> [clone EXCEPT !.cfg = [fallback |-> Undefined, onError |-> {h}]]]

RetryAsync_onError(self, h) ==
    LET clone == RetryAsync_new(RetryAsync_config(self))
    IN [self |-> self,
        ret |-> [clone EXCEPT !.cfg = [fallback |-> self.cfg.fallback, onError |-> {h}]]]

RetryAsync_fallback(self, fallback) ==
    LET clone == RetryAsync_new(RetryAsync_config(self))
    IN [self |-> self,
        ret |-> [clone EXCEPT !.cfg = [fallback |-> fallback, onError |-> self.cfg.onError]]]

\* Dispatch on the class of the receiver.
New(kind, config) ==
    IF kind = "Retry" THEN Retry_new(config) ELSE RetryAsync_new(config)
OnError(self, h) ==
    IF self.kind = "Retry" THEN Retry_onError(self, h) ELSE RetryAsync_onError(self, h)
Fallback(self, fallback) ==
    IF self.kind = "Retry" THEN Retry_fallback(self, fallback)
    ELSE RetryAsync_fallback(self, fallback)

\* The heap and its history after a call.
World(heap, hist) == [engines |-> heap, made |-> hist]
Made(op, recv, config, handler, value) ==
    [op |-> op, recv |-> recv, config |-> config, handler |-> handler, value |-> value]
NoConfig == Config({}, {})

WorldNew(w, kind, config) ==
    World(Append(w.engines, New(kind, config)),
          Append(w.made, Made("new", 0, config, {}, Undefined)))
WorldOnError(w, e, h) ==
    LET r == OnError(w.engines[e], h)
    IN World(Append([w.engines EXCEPT ![e] = r.self], r.ret),
             Append(w.made, Made("onError", e, NoConfig, {h}, Undefined)))
WorldFallback(w, e, fallback) ==
    LET r == Fallback(w.engines[e], fallback)
    IN World(Append([w.engines EXCEPT ![e] = r.self], r.ret),
             Append(w.made, Made("fallback", e, NoConfig, {}, fallback)))

----------------------------------------------------------------------------
(* Retry.run: the blocking loop, one call from entry to return *)

Call(who, attempt, error) == [who |-> who, attempt |-> attempt, error |-> error]

\* What one pass through the loop body leads to.
Continue(calls) ==
    [next |-> "continue", result |-> RunError_empty, fault |-> Undefined, calls |-> calls]
Return(result, calls) ==
    [next |-> "return", result |-> result, fault |-> Undefined, calls |-> calls]
Throw(fault, calls) ==
    [next |-> "throw", result |-> RunError_empty, fault |-> fault, calls |-> calls]

\* Variant: the loop condition off by one.
Retry_loopCond_inclusive(self, i) == Num(i) <= self.attempts

\* for (let i = 0; i < this.attempts; i += 1)
Retry_loopCond(self, i) == Num(i) < self.attempts

\* Variant: the attempt context numbered from zero.
Retry_runContext_zeroBased(i) == RunContext(i)

\* new RunContext(i + 1)
Retry_runContext(i) == RunContext(i + 1)

\* new OnErrorContext(i, e)
Retry_onErrorContext(i, e) == OnErrorContext(i, e)

\* return new RunError(this.cfg.fallback)
Retry_exhausted(self) == RunError(self.cfg.fallback)

\* Variant: with no handler the caught fault is thrown again.
Retry_catch_rethrows(self, i, e, calls) ==
    IF self.cfg.onError # {}
    THEN LET ctx == Retry_onErrorContext(i, e)
             hout == CallHandler(CHOOSE h \in self.cfg.onError : TRUE, ctx)
             calls1 == Append(calls, Call("onError", ctx.attempt, ctx.error))
         IN IF hout.throws
            THEN Throw(hout.fault, calls1)
            ELSE IF ~hout.ret.ok
                 THEN Return(hout.ret, calls1)
                 ELSE Continue(calls1)
    ELSE Throw(e, calls)

\* Variant: the handler's answer is read the wrong way round.
Retry_catch_inverted(self, i, e, calls) ==
    IF self.cfg.onError # {}
    THEN LET ctx == Retry_onErrorContext(i, e)
             hout == CallHandler(CHOOSE h \in self.cfg.onError : TRUE, ctx)
             calls1 == Append(calls, Call("onError", ctx.attempt, ctx.error))
         IN IF hout.throws
            THEN Throw(hout.fault, calls1)
            ELSE IF hout.ret.ok
                 THEN Return(hout.ret, calls1)
                 ELSE Continue(calls1)
    ELSE Continue(calls)

\* Variant: a fault thrown by the handler is caught as well, the loop goes on.
Retry_catch_swallowsHandler(self, i, e, calls) ==
    IF self.cfg.onError # {}
    THEN LET ctx == Retry_onErrorContext(i, e)
             hout == CallHandler(CHOOSE h \in self.cfg.onError : TRUE, ctx)
             calls1 == Append(calls, Call("onError", ctx.attempt, ctx.error))
         IN IF hout.throws
            THEN Continue(calls1)
            ELSE IF ~hout.ret.ok
                 THEN Return(hout.ret, calls1)
                 ELSE Continue(calls1)
    ELSE Continue(calls)

\* catch (e) { if (this.cfg.onError) { ... } }: the fault e of attempt i is
\* handed to the handler if there is one; with none the block is empty.
Retry_catch(self, i, e, calls) ==
    IF self.cfg.onError # {}
    THEN LET ctx == Retry_onErrorContext(i, e)
             hout == CallHandler(CHOOSE h \in self.cfg.onError : TRUE, ctx)
             calls1 == Append(calls, Call("onError", ctx.attempt, ctx.error))
         IN IF hout.throws
            THEN Throw(hout.fault, calls1)
            ELSE IF ~hout.ret.ok
                 THEN Return(hout.ret, calls1)
                 ELSE Continue(calls1)
    ELSE Continue(calls)

\* Variant: a failure result that carries an error is returned as well.
Retry_try_returnsError(self, f, i, calls) ==
    LET ctx == Retry_runContext(i)
        out == CallFn(f, ctx)
        calls1 == Append(calls, Call("fn", ctx.attempt, Undefined))
    IN IF out.throws
       THEN Retry_catch(self, i, out.fault, calls1)
       ELSE IF out.ret.ok \/ out.ret.error # Undefined
            THEN Return(out.ret, calls1)
            ELSE Continue(calls1)

\* try { const ctx = ...; const result = fn(ctx); if (result.ok) return result; }
Retry_try(self, f, i, calls) ==
    LET ctx == Retry_runContext(i)
        out == CallFn(f, ctx)
        calls1 == Append(calls, Call("fn", ctx.attempt, Undefined))
    IN IF out.throws
       THEN Retry_catch(self, i, out.fault, calls1)
       ELSE IF out.ret.ok
            THEN Return(out.ret, calls1)
            ELSE Continue(calls1)

RECURSIVE Retry_loop(_, _, _, _)
Retry_loop(self, f, i, calls) ==
    IF ~Retry_loopCond(self, i)
    THEN Return(Retry_exhausted(self), calls)
    ELSE LET step == Retry_try(self, f, i, calls)
         IN IF step.next = "continue"
            THEN Retry_loop(self, f, i + 1, step.calls)
            ELSE step

Retry_run(self, f) == Retry_loop(self, f, 0, <<>>)

----------------------------------------------------------------------------
(* RetryAsync.run: the suspendable loop, one step per suspension point *)

Idle ==
    [this |-> 0, pc |-> "idle", i |-> 0, calls |-> <<>>, result |-> RunError_empty,
     fault |-> Undefined, caught |-> Undefined, delays |-> <<>>, elapsed |-> 0]

\* No second invocation: nothing to run, never started.
NoPeer == [fn |-> <<>>, run |-> Idle]

\* Variant: the loop runs once more.
RetryAsync_loopCond_inclusive(self, i) == Num(i) <= self.attempts

\* for (let i = 0; i < this.attempts; i += 1)
RetryAsync_loopCond(self, i) == Num(i) < self.attempts

\* new RunAsyncContext(i + 1)
RetryAsync_runContext(i) == RunAsyncContext(i + 1)

\* Variant: the handler's context is numbered like the unit of work's.
RetryAsync_onErrorContext_oneBased(i, e) == OnErrorContext(i + 1, e)

\* new OnErrorContext(i, e)
RetryAsync_onErrorContext(i, e) == OnErrorContext(i, e)

\* Variant: the loop ends with the empty failure result.
RetryAsync_exhausted_empty(self) == RunError_empty

\* return new RunError(this.cfg.fallback)
RetryAsync_exhausted(self) == RunError(self.cfg.fallback)

\* catch (e) { if (this.cfg.onError) ... }
RetryAsync_handles(self) == self.cfg.onError # {}

\* Variant: the delay follows the last attempt too.
RetryAsync_delays_always(self, i) == self.delayms # {} /\ self.delayms # {0}

\* if (this.delayms && i < this.attempts - 1)
RetryAsync_delays(self, i) ==
    self.delayms # {} /\ self.delayms # {0} /\ Num(i) < self.attempts - Num(1)

\* The loop head at index i: either the unit of work is invoked with a fresh
\* context and the run awaits it, or the loop is over and run returns.
RetryAsync_iterate(self, r, i) ==
    IF ~RetryAsync_loopCond(self, i)
    THEN [r EXCEPT !.pc = "returned", !.i = i, !.result = RetryAsync_exhausted(self)]
    ELSE [r EXCEPT !.pc = "await_fn", !.i = i,
                   !.calls = Append(@, Call("fn", RetryAsync_runContext(i).attempt, Undefined))]

\* Variant: the timer is started and not awaited.
RetryAsync_afterFn_noAwaitDelay(self, r, out) ==
    IF ~out.throws
    THEN IF out.ret.ok
         THEN [r EXCEPT !.pc = "returned", !.result = out.ret]
         ELSE IF RetryAsync_delays(self, r.i)
              THEN RetryAsync_iterate(
                       self,
                       [r EXCEPT !.delays = Append(@, RetryAsync_runContext(r.i).attempt)],
                       r.i + 1)
              ELSE RetryAsync_iterate(self, r, r.i + 1)
    ELSE IF RetryAsync_handles(self)
         THEN LET ectx == RetryAsync_onErrorContext(r.i, out.fault)
              IN [r EXCEPT !.pc = "await_onError", !.caught = out.fault,
                           !.calls = Append(@, Call("onError", ectx.attempt, ectx.error))]
         ELSE RetryAsync_iterate(self, r, r.i + 1)

\* Variant: a success of the unit of work is not returned, the loop goes on.
RetryAsync_afterFn_ignoresOk(self, r, out) ==
    IF ~out.throws
    THEN IF RetryAsync_delays(self, r.i)
         THEN [r EXCEPT !.pc = "await_delay",
                        !.delays = Append(@, RetryAsync_runContext(r.i).attempt)]
         ELSE RetryAsync_iterate(self, r, r.i + 1)
    ELSE IF RetryAsync_handles(self)
         THEN LET ectx == RetryAsync_onErrorContext(r.i, out.fault)
              IN [r EXCEPT !.pc = "await_onError", !.caught = out.fault,
                           !.calls = Append(@, Call("onError", ectx.attempt, ectx.error))]
         ELSE RetryAsync_iterate(self, r, r.i + 1)

\* const result = await fn(ctx), resumed with what the unit of work did.
RetryAsync_afterFn(self, r, out) ==
    IF ~out.throws
    THEN IF out.ret.ok
         THEN [r EXCEPT !.pc = "returned", !.result = out.ret]
         ELSE IF RetryAsync_delays(self, r.i)
              THEN [r EXCEPT !.pc = "await_delay",
                             !.delays = Append(@, RetryAsync_runContext(r.i).attempt)]
              ELSE RetryAsync_iterate(self, r, r.i + 1)
    ELSE IF RetryAsync_handles(self)
         THEN LET ectx == RetryAsync_onErrorContext(r.i, out.fault)
              IN [r EXCEPT !.pc = "await_onError", !.caught = out.fault,
                           !.calls = Append(@, Call("onError", ectx.attempt, ectx.error))]
         ELSE RetryAsync_iterate(self, r, r.i + 1)

\* Variant: the timer fires and the loop does not go on.
RetryAsync_afterDelay_stuck(self, r) == r

\* await delay(this.delayms), resumed when the timer fires.
RetryAsync_afterDelay(self, r) ==
    RetryAsync_iterate(self,
                       [r EXCEPT !.elapsed = @ + (CHOOSE d \in self.delayms : TRUE)],
                       r.i + 1)

\* Variant: a stop signal of the handler does not end the run.
RetryAsync_afterOnError_ignoresStop(self, r, hout) ==
    IF hout.throws
    THEN [r EXCEPT !.pc = "threw", !.fault = hout.fault]
    ELSE RetryAsync_iterate(self, r, r.i + 1)

\* Variant: the delay also follows a fault the handler answered with retry.
RetryAsync_afterOnError_delays(self, r, hout) ==
    IF hout.throws
    THEN [r EXCEPT !.pc = "threw", !.fault = hout.fault]
    ELSE IF ~hout.ret.ok
         THEN [r EXCEPT !.pc = "returned", !.result = hout.ret]
         ELSE IF RetryAsync_delays(self, r.i)
              THEN [r EXCEPT !.pc = "await_delay",
                             !.delays = Append(@, RetryAsync_runContext(r.i).attempt)]
              ELSE RetryAsync_iterate(self, r, r.i + 1)

\* const result = await this.cfg.onError(ctx), resumed with the handler's answer.
RetryAsync_afterOnError(self, r, hout) ==
    IF hout.throws
    THEN [r EXCEPT !.pc = "threw", !.fault = hout.fault]
    ELSE IF ~hout.ret.ok
         THEN [r EXCEPT !.pc = "returned", !.result = hout.ret]
         ELSE RetryAsync_iterate(self, r, r.i + 1)

\* run(fn) from the state r to its end, with nothing else in between.
RECURSIVE RetryAsync_run(_, _, _)
RetryAsync_run(self, f, r) ==
    IF r.pc = "idle"
    THEN RetryAsync_run(self, f, RetryAsync_iterate(self, r, 0))
    ELSE IF r.pc = "await_fn"
    THEN RetryAsync_run(self, f,
             RetryAsync_afterFn(self, r, CallFn(f, RetryAsync_runContext(r.i))))
    ELSE IF r.pc = "await_delay"
    THEN RetryAsync_run(self, f, RetryAsync_afterDelay(self, r))
    ELSE IF r.pc = "await_onError"
    THEN RetryAsync_run(self, f,
             RetryAsync_afterOnError(
                 self, r,
                 CallHandler(CHOOSE h \in self.cfg.onError : TRUE,
                             RetryAsync_onErrorContext(r.i, r.caught))))
    ELSE r

----------------------------------------------------------------------------
(* Actions *)

This == engines[run.this]

\* retry.run(fn) on a blocking engine
RunRetry ==
    /\ run.pc = "idle"
    /\ run.this \in DOMAIN engines
    /\ This.kind = "Retry"
    /\ LET r == Retry_run(This, fn)
       IN run' = [run EXCEPT !.pc = IF r.next = "throw" THEN "threw" ELSE "returned",
                             !.result = r.result, !.fault = r.fault, !.calls = r.calls]
    /\ UNCHANGED <<engines, made, fn, unwrapped, peer>>

\* retry.run(fn) on a suspendable engine, up to its first await
RunRetryAsync ==
    /\ run.pc = "idle"
    /\ run.this \in DOMAIN engines
    /\ This.kind = "RetryAsync"
    /\ run' = RetryAsync_iterate(This, run, 0)
    /\ UNCHANGED <<engines, made, fn, unwrapped, peer>>

FnSettled ==
    /\ run.pc = "await_fn"
    /\ run' = RetryAsync_afterFn(This, run, CallFn(fn, RetryAsync_runContext(run.i)))
    /\ UNCHANGED <<engines, made, fn, unwrapped, peer>>

DelayElapsed ==
    /\ run.pc = "await_delay"
    /\ run' = RetryAsync_afterDelay(This, run)
    /\ UNCHANGED <<engines, made, fn, unwrapped, peer>>

OnErrorSettled ==
    /\ run.pc = "await_onError"
    /\ run' = RetryAsync_afterOnError(
                  This, run,
                  CallHandler(CHOOSE h \in This.cfg.onError : TRUE,
                              RetryAsync_onErrorContext(run.i, run.caught)))
    /\ UNCHANGED <<engines, made, fn, unwrapped, peer>>

\* The steps of a second run(fn) in flight on the same engine.
Their == engines[peer.run.this]

PeerRunRetryAsync ==
    /\ peer.run.pc = "idle"
    /\ peer.run.this \in DOMAIN engines
    /\ Their.kind = "RetryAsync"
    /\ peer' = [peer EXCEPT !.run = RetryAsync_iterate(Their, peer.run, 0)]
    /\ UNCHANGED <<engines, made, fn, run, unwrapped>>

\* Variant: the loop index is a field of the engine, shared by its runs.
PeerFnSettled_sharedIndex ==
    /\ peer.run.pc = "await_fn"
    /\ peer' = [peer EXCEPT !.run = RetryAsync_afterFn(
                                       Their, peer.run,
                                       CallFn(peer.fn, RetryAsync_runContext(peer.run.i)))]
    /\ run' = [run EXCEPT !.i = peer'.run.i]
    /\ UNCHANGED <<engines, made, fn, unwrapped>>

PeerFnSettled ==
    /\ peer.run.pc = "await_fn"
    /\ peer' = [peer EXCEPT !.run = RetryAsync_afterFn(
                                       Their, peer.run,
                                       CallFn(peer.fn, RetryAsync_runContext(peer.run.i)))]
    /\ UNCHANGED <<engines, made, fn, run, unwrapped>>

PeerDelayElapsed ==
    /\ peer.run.pc = "await_delay"
    /\ peer' = [peer EXCEPT !.run = RetryAsync_afterDelay(Their, peer.run)]
    /\ UNCHANGED <<engines, made, fn, run, unwrapped>>

PeerOnErrorSettled ==
    /\ peer.run.pc = "await_onError"
    /\ peer' = [peer EXCEPT !.run = RetryAsync_afterOnError(
                                       Their, peer.run,
                                       CallHandler(CHOOSE h \in Their.cfg.onError : TRUE,
                                                   RetryAsync_onErrorContext(
                                                       peer.run.i, peer.run.caught)))]
    /\ UNCHANGED <<engines, made, fn, run, unwrapped>>

\* The caller of run applies both unwraps to the result it was returned.
UnwrapResult ==
    /\ run.pc = "returned"
    /\ unwrapped = {}
    /\ unwrapped' = {[ok |-> RunOk_unwrap(run.result),
                      error |-> RunError_unwrap(run.result)]}
    /\ UNCHANGED <<engines, made, fn, run, peer>>

\* new Retry(config) / new RetryAsync(config)
NewEngine(kind, config) ==
    /\ Len(engines) < MaxEngines
    /\ LET w == WorldNew(World(engines, made), kind, config)
       IN engines' = w.engines /\ made' = w.made
    /\ UNCHANGED <<fn, run, unwrapped, peer>>

\* e.onError(h)
CallOnError(e, h) ==
    /\ Len(engines) < MaxEngines
    /\ LET w == WorldOnError(World(engines, made), e, h)
       IN engines' = w.engines /\ made' = w.made
    /\ UNCHANGED <<fn, run, unwrapped, peer>>

\* e.fallback(v)
CallFallback(e, v) ==
    /\ Len(engines) < MaxEngines
    /\ LET w == WorldFallback(World(engines, made), e, v)
       IN engines' = w.engines /\ made' = w.made
    /\ UNCHANGED <<fn, run, unwrapped, peer>>

----------------------------------------------------------------------------
(* Inputs *)

Some(S) == {{x} : x \in S}
Opt(S) == {{}} \cup Some(S)

Handlers ==
    {Handler(t, "stop", a) : t \in 0..(MaxAttempts + 1), a \in {"s1", Undefined}}
        \cup {Handler(t, "throw", "g1") : t \in 0..(MaxAttempts + 1)}

Fallbacks == {"fb1", "fb2"}

\* The units of work: every table of outcomes for attempts 1..n, for each n.
WorkFns == UNION {[1..n -> WorkOutcomes] : n \in 1..MaxAttempts}

\* The state after `new K(config)[.onError(h)][.fallback(v)]`, with run about
\* to be called on the engine built last, on a unit of work whose table covers
\* the attempts of that engine.
InitRunWith(Ks, Attempts, Delays, HandlerOpts, FallbackOpts, Fns, PeerFns) ==
    \E k \in Ks, a \in Attempts, d \in Delays, h \in HandlerOpts, v \in FallbackOpts :
        LET w0 == WorldNew(World(<<>>, <<>>), k, Config(a, d))
            w1 == IF h = {} THEN w0
                  ELSE WorldOnError(w0, Len(w0.engines), CHOOSE x \in h : TRUE)
            w2 == IF v = {} THEN w1
                  ELSE WorldFallback(w1, Len(w1.engines), CHOOSE x \in v : TRUE)
        IN /\ (k = "Retry" => d = {})
           /\ engines = w2.engines
           /\ made = w2.made
           /\ fn \in {f \in Fns : DOMAIN f = 1..(w2.engines[Len(w2.engines)].attempts \div 10)}
           /\ run = [Idle EXCEPT !.this = Len(w2.engines)]
           /\ unwrapped = {}
           /\ \E g \in PeerFns :
                  peer = IF g = <<>> THEN NoPeer
                         ELSE [fn |-> g, run |-> [Idle EXCEPT !.this = Len(w2.engines)]]

\* The same with run called once.
InitRun(Ks, Attempts, Delays, HandlerOpts, FallbackOpts, Fns) ==
    InitRunWith(Ks, Attempts, Delays, HandlerOpts, FallbackOpts, Fns, {<<>>})

Kinds == {"Retry", "RetryAsync"}

Init ==
    InitRun(Kinds, Some({Num(n) : n \in 1..MaxAttempts}), Opt(1..MaxDelay),
            Opt(Handlers), Opt(Fallbacks), WorkFns)

Next ==
    \/ RunRetry
    \/ RunRetryAsync
    \/ FnSettled
    \/ DelayElapsed
    \/ OnErrorSettled

\* Runs of every engine the builders give, on every unit of work.
Spec == Init /\ [][Next]_vars

\* The counts and delays a caller may configure: none, negative, zero,
\* fractional below one, and each whole count with and without a fraction.
AttemptInputs ==
    {-50, -4, 0, 4} \cup {Num(n) + f : n \in 1..MaxAttempts, f \in {0, 9}}
DelayInputs == {-1, 0} \cup 1..MaxDelay

InitCoerce ==
    InitRun(Kinds, Opt(AttemptInputs), Opt(DelayInputs),
            Opt({Handler(MaxAttempts + 1, "stop", "s1")}), {{}}, WorkFns)

\* Runs of the engines the constructors make of any configured count.
SpecCoerce == InitCoerce /\ [][Next]_vars

\* The scenario of the test "allows defining custom error handling to a retry
\* instance": attempts 10, the unit of work throws new Error(msg) when
\* ctx.attempt > 7, the handler retries while ctx.attempt < 7 and then stops
\* with msg.
TestAttempts == 10
TestRetryBelow == 7
TestThrowAbove == 7
TestMsg == "Cannot try more than seven times"
TestFault == "Error: Cannot try more than seven times"
TestHandler == Handler(TestRetryBelow, "stop", TestMsg)
TestFn ==
    [a \in 1..TestAttempts |->
        IF a > TestThrowAbove THEN Do("throw", TestFault) ELSE Do("retry", Undefined)]

InitTest ==
    InitRun(Kinds, {{Num(TestAttempts)}}, Opt(1..MaxDelay), {{TestHandler}},
            Opt(Fallbacks), {TestFn})

SpecTest == InitTest /\ [][Next]_vars

\* Runs whose caller unwraps the result both ways.
InitUnwrap ==
    InitRun(Kinds, Some({Num(n) : n \in 1..MaxAttempts}), Opt({MaxDelay}),
            Opt(Handlers), Opt(Fallbacks), WorkFns)

NextUnwrap ==
    \/ Next
    \/ UnwrapResult

SpecUnwrap == InitUnwrap /\ [][NextUnwrap]_vars

\* Runs with a handler that stops, on units of work whose faults differ from
\* one attempt to the other.
StopHandlers ==
    {Handler(t, "stop", a) : t \in 0..(MaxAttempts + 1), a \in {"s1", Undefined}}
FaultyFns ==
    UNION {[1..n -> {Do("retry", Undefined), Do("throw", "f1"), Do("throw", "f2")}] :
               n \in 1..MaxAttempts}

InitStop ==
    InitRun(Kinds, Some({Num(n) : n \in 1..MaxAttempts}), Opt({MaxDelay}),
            Some(StopHandlers), Opt(Fallbacks), FaultyFns)

SpecStop == InitStop /\ [][Next]_vars

\* Runs in which every callback invoked settles and every timer fires: a step
\* that is enabled is eventually taken.
LiveHandlers ==
    {Handler(t, "stop", Undefined) : t \in {1, MaxAttempts + 1}}
        \cup {Handler(t, "throw", "g1") : t \in {1, MaxAttempts + 1}}

InitLive ==
    InitRun(Kinds, Some({Num(n) : n \in 1..MaxAttempts}), Opt({MaxDelay}),
            Opt(LiveHandlers), {{}}, WorkFns)

SpecLive == InitLive /\ [][Next]_vars /\ WF_vars(Next)

\* Two runs in flight on one suspendable engine, each on a unit of work of its
\* own, resumed in any order.
SharedHandlers ==
    {Handler(0, "stop", "s1"), Handler(1, "stop", Undefined), Handler(1, "throw", "g1")}
SharedFns ==
    [1..2 -> {Do("retry", Undefined), Do("error", "e1"), Do("throw", "f1"), Do("ok", "v1")}]

InitShared ==
    InitRunWith({"RetryAsync"}, {{Num(2)}}, Opt({MaxDelay}), Opt(SharedHandlers),
                Opt({"fb1"}), SharedFns, SharedFns)

NextShared ==
    \/ RunRetryAsync
    \/ FnSettled
    \/ DelayElapsed
    \/ OnErrorSettled
    \/ PeerRunRetryAsync
    \/ PeerFnSettled
    \/ PeerDelayElapsed
    \/ PeerOnErrorSettled

SpecShared == InitShared /\ [][NextShared]_vars

\* Runs with a fallback and a handler that throws a fault of its own, on units
\* of work that throw.
ThrowHandlers ==
    {Handler(t, "throw", g) : t \in 0..(MaxAttempts + 1), g \in {"g1", "g2"}}

InitThrow ==
    InitRun(Kinds, Some({Num(n) : n \in 1..MaxAttempts}), Opt({MaxDelay}),
            Some(ThrowHandlers), Some(Fallbacks), FaultyFns)

SpecThrow == InitThrow /\ [][Next]_vars

\* The builders at work on a heap of engines.
BuilderAttempts == {Num(2), Num(MaxAttempts) + 9}
BuilderHandlers == {Handler(0, "stop", "s1"), Handler(MaxAttempts + 1, "stop", Undefined)}

InitBuilder ==
    /\ engines = <<>>
    /\ made = <<>>
    /\ fn = <<>>
    /\ run = Idle
    /\ unwrapped = {}
    /\ peer = NoPeer

NextBuilder ==
    \/ \E k \in Kinds, a \in Some(BuilderAttempts), d \in Opt({MaxDelay}) :
           (k = "Retry" => d = {}) /\ NewEngine(k, Config(a, d))
    \/ \E e \in DOMAIN engines, h \in BuilderHandlers : CallOnError(e, h)
    \/ \E e \in DOMAIN engines, v \in Fallbacks : CallFallback(e, v)

SpecBuilder == InitBuilder /\ [][NextBuilder]_vars

----------------------------------------------------------------------------
(* Vocabulary of the properties *)

Done == run.pc \in {"returned", "threw"}
Count == This.attempts \div 10
FnCalls == SelectSeq(run.calls, LAMBDA c : c.who = "fn")
OnErrorCalls == SelectSeq(run.calls, LAMBDA c : c.who = "onError")
Does(a, what) == a \in DOMAIN fn /\ fn[a].do = what
TheHandler == CHOOSE h \in This.cfg.onError : TRUE

\* The fallback the builder calls configured: the argument of the last
\* fallback(v) in the chain that built the engine, undefined without one.
ConfiguredFallback ==
    LET F == {k \in DOMAIN made : made[k].op = "fallback"}
    IN IF F = {} THEN Undefined
       ELSE made[CHOOSE k \in F : \A j \in F : j <= k].value

\* The unit of work was invoked exactly k times, with ctx.attempt = 1, ..., k.
InvokedInOrder(k) ==
    /\ Len(FnCalls) = k
    /\ \A j \in 1..k : FnCalls[j].attempt = j

----------------------------------------------------------------------------
(* C1 *)

AlwaysRetries == \A a \in 1..Count : Does(a, "retry")

\* C1: a unit of work that returns the retry signal on every attempt is
\* invoked exactly n = attempts times, sees ctx.attempt = 1, 2, ..., n in that
\* order, and run returns the failure result carrying the configured fallback
\* (undefined without one), in Retry and in RetryAsync.
C1_AlwaysRetryExhausts ==
    AlwaysRetries =>
        /\ \A j \in DOMAIN run.calls : run.calls[j] = Call("fn", j, Undefined)
        /\ Len(run.calls) <= Count
        /\ Done => /\ run.pc = "returned"
                   /\ InvokedInOrder(Count)
                   /\ run.result = RunError(ConfiguredFallback)

C1_Witness ==
    /\ AlwaysRetries /\ Done
    /\ Count = MaxAttempts
    /\ This.kind = "Retry"
    /\ ConfiguredFallback = "fb1"
    /\ Len(run.calls) = MaxAttempts

----------------------------------------------------------------------------
(* C2 *)

\* The unit of work retries on attempts 1..k-1 and returns ctx.ok(v) on k.
OkAt(k) == (\A a \in 1..(k - 1) : Does(a, "retry")) /\ Does(k, "ok")

\* C2: a unit of work that retries on attempts 1..k-1 and returns ctx.ok(v)
\* on attempt k <= n is invoked exactly k times, never after attempt k, and
\* run returns the success result carrying v.
C2_OkAtKStops ==
    \A k \in 1..Count :
        OkAt(k) =>
            /\ Len(run.calls) <= k
            /\ Done => /\ run.pc = "returned"
                       /\ InvokedInOrder(k)
                       /\ run.result.ok
                       /\ run.result.value = fn[k].arg

C2_Witness ==
    /\ Done /\ Count = MaxAttempts
    /\ OkAt(2) /\ fn[2].arg = "v2"
    /\ fn[MaxAttempts].do = "ok" /\ fn[MaxAttempts].arg = "v1"
    /\ This.kind = "RetryAsync"
    /\ run.result = RunOk("v2")

----------------------------------------------------------------------------
(* C3 *)

NoHandler == This.cfg.onError = {}

\* The attempts invoked so far on which the unit of work threw, the fault
\* having reached the engine (the run has moved past the await).
ThrewAt(a) ==
    /\ a \in 1..Len(FnCalls)
    /\ Does(FnCalls[a].attempt, "throw")
    /\ (a < Len(FnCalls) \/ run.pc # "await_fn")

\* C3 as stated: with no handler configured, a fault thrown by the unit of
\* work on an attempt propagates to the caller of run, which ends abnormally
\* at that attempt without any further attempt.
C3_Original ==
    NoHandler =>
        \A a \in 1..Count :
            ThrewAt(a) => /\ run.pc = "threw"
                          /\ run.fault = fn[a].arg
                          /\ Len(FnCalls) = a

\* C3 (amended): with no handler configured, a fault thrown by the unit of
\* work is caught and discarded by the engine: run never ends abnormally, no
\* handler is invoked, the attempt counts as a failed one, so that the next
\* attempt is made whenever one is left, and a run whose last invoked attempt
\* threw has used all its attempts and returns the failure result carrying the
\* configured fallback.
C3_NoHandlerSwallows ==
    NoHandler =>
        /\ run.pc # "threw"
        /\ \A j \in DOMAIN run.calls : run.calls[j] = Call("fn", j, Undefined)
        /\ \A a \in 1..Count :
               (ThrewAt(a) /\ Done) =>
                   /\ run.pc = "returned"
                   /\ a < Count => Len(FnCalls) > a
                   /\ a = Len(FnCalls) => /\ a = Count
                                          /\ run.result = RunError(ConfiguredFallback)

C3_Witness ==
    /\ NoHandler /\ Done
    /\ Count = MaxAttempts
    /\ ThrewAt(1) /\ ThrewAt(MaxAttempts)
    /\ Len(FnCalls) = MaxAttempts
    /\ run.result = RunError(ConfiguredFallback)

----------------------------------------------------------------------------
(* C4 *)

\* The handler was invoked for the fault of attempt k and answered with a
\* stop signal (its answer has reached the engine).
StoppedAt(k) ==
    /\ ~NoHandler
    /\ \E j \in DOMAIN run.calls :
          /\ run.calls[j].who = "onError"
          /\ j > 1 /\ run.calls[j - 1] = Call("fn", k, Undefined)
          /\ TheHandler.otherwise = "stop"
          /\ run.calls[j].attempt >= TheHandler.retryBelow
          /\ (j < Len(run.calls) \/ run.pc # "await_onError")

\* The error of the handler's stop signal for the fault of attempt k: the
\* argument of stop, or the fault itself when stop is given none.
StopError(k) == IF TheHandler.arg # Undefined THEN TheHandler.arg ELSE fn[k].arg

\* C4: when the handler answers the fault of attempt k with a stop signal, run
\* returns the handler's failure result at once: the unit of work has been
\* invoked exactly k times, the handler's call is the last call of the run, and
\* the error returned is the handler's, not the fallback.
C4_StopEndsRun ==
    \A k \in 1..Count :
        StoppedAt(k) =>
            /\ run.pc = "returned"
            /\ InvokedInOrder(k)
            /\ run.calls[Len(run.calls)].who = "onError"
            /\ run.result = RunError(StopError(k))
            /\ run.result.error # ConfiguredFallback

C4_Witness ==
    /\ StoppedAt(1) /\ Count = MaxAttempts
    /\ ConfiguredFallback = "fb1"
    /\ TheHandler.arg = "s1"
    /\ \A a \in 2..MaxAttempts : Does(a, "ok")
    /\ run.result = RunError("s1")
    /\ This.kind = "RetryAsync"

----------------------------------------------------------------------------
(* C5 *)

AlwaysThrows == \A a \in 1..Count : Does(a, "throw")
HandlerAlwaysRetries == ~NoHandler /\ TheHandler.retryBelow > MaxAttempts

\* C5: with a handler that always answers retry and a unit of work that throws
\* on every attempt, the unit of work and the handler are each invoked exactly
\* n = attempts times, and run returns, without throwing, the failure result
\* carrying the configured fallback.
C5_RetryHandlerExhausts ==
    (AlwaysThrows /\ HandlerAlwaysRetries) =>
        /\ Len(FnCalls) <= Count
        /\ Len(OnErrorCalls) <= Len(FnCalls)
        /\ Done => /\ run.pc = "returned"
                   /\ InvokedInOrder(Count)
                   /\ Len(OnErrorCalls) = Count
                   /\ run.result = RunError(ConfiguredFallback)

C5_Witness ==
    /\ AlwaysThrows /\ HandlerAlwaysRetries /\ Done
    /\ Count = MaxAttempts
    /\ This.kind = "Retry"
    /\ Len(OnErrorCalls) = MaxAttempts
    /\ run.result = RunError("fb1")

----------------------------------------------------------------------------
(* C6 *)

\* C6: in the scenario of the test (attempts = 10, the unit of work throws a
\* fault with message M when ctx.attempt > 7 and retries otherwise, the handler
\* retries while its ctx.attempt < 7 and stops with M otherwise), run returns
\* the failure result carrying M and the unit of work is invoked exactly 8
\* times: attempts 1..7 retry, attempt 8 throws and the handler stops.
C6_TestScenario ==
    /\ Len(FnCalls) <= 8
    /\ Len(OnErrorCalls) <= 1
    /\ Done => /\ run.pc = "returned"
               /\ run.result = RunError(TestMsg)
               /\ InvokedInOrder(8)
               /\ Len(OnErrorCalls) = 1
               /\ run.calls[Len(run.calls)].who = "onError"

C6_Witness ==
    /\ Done
    /\ This.kind = "Retry"
    /\ Count = TestAttempts
    /\ fn = TestFn
    /\ This.cfg.onError = {TestHandler}
    /\ run.result = RunError(TestMsg)
    /\ Len(FnCalls) = 8

----------------------------------------------------------------------------
(* C7 *)

\* The attempts count the claim gives for a configured count x (in tenths):
\* 1 for x <= 0, x for a positive integer, else its floor, or 1 if that is 0.
ClaimedAttempts(x) ==
    IF x <= 0 THEN 10
    ELSE IF x % 10 = 0 THEN x
    ELSE IF x - (x % 10) = 0 THEN 10
    ELSE x - (x % 10)

\* C7: the attempts count a constructor stores is a positive integer, the one
\* the coercion rule gives for the configured count (0 -> 1, -5 -> 1,
\* 2.9 -> 2, 0.4 -> 1, a positive integer unchanged), and a run of a unit of
\* work that always retries invokes it as many times as the stored count.
C7_AttemptsCoerced ==
    /\ \A k \in DOMAIN engines :
          /\ engines[k].attempts > 0
          /\ engines[k].attempts % 10 = 0
          /\ (made[k].op = "new" /\ made[k].config.attempts # {}) =>
                 engines[k].attempts =
                     ClaimedAttempts(CHOOSE x \in made[k].config.attempts : TRUE)
    /\ AlwaysRetries =>
          /\ Num(Len(FnCalls)) <= This.attempts
          /\ Done => Num(Len(FnCalls)) = This.attempts

C7_Witness ==
    /\ made[1].config.attempts = {29}
    /\ engines[1].attempts = 20
    /\ AlwaysRetries /\ Done
    /\ Len(FnCalls) = 2

----------------------------------------------------------------------------
(* C8 *)

\* A unit of work that retries on every attempt.
RetryFn == [a \in 1..(MaxAttempts + 1) |-> Do("retry", Undefined)]

\* C8: onError and fallback never change the receiver: over every builder
\* call each engine of the heap keeps its attempts, delay, handler and
\* fallback, and with them what its run returns; an engine made by a
\* constructor has no handler and no fallback whatever was derived from it, so
\* that its run still returns Error(undefined) on exhaustion.
C8_BuildersKeepReceiver ==
    /\ [][\A e \in DOMAIN engines :
              /\ engines'[e] = engines[e]
              /\ engines[e].kind = "Retry" =>
                     Retry_run(engines'[e], RetryFn) = Retry_run(engines[e], RetryFn)]_vars
    /\ [](\A e \in DOMAIN engines :
              made[e].op = "new" =>
                  /\ engines[e].cfg = [fallback |-> Undefined, onError |-> {}]
                  /\ engines[e].kind = "Retry" =>
                         Retry_run(engines[e], RetryFn).result = RunError(Undefined))

C8_Witness ==
    /\ Len(engines) = 3
    /\ made[1].op = "new" /\ engines[1].kind = "Retry"
    /\ made[2].op = "fallback" /\ made[2].recv = 1
    /\ made[3].op = "onError" /\ made[3].recv = 1
    /\ engines[2].cfg.fallback = "fb1"
    /\ engines[3].cfg.onError # {}
    /\ engines[1].cfg = [fallback |-> Undefined, onError |-> {}]

----------------------------------------------------------------------------
(* C9 *)

\* C9: the engine onError(h) returns has handler h and the attempts, delay and
\* fallback of the receiver; the engine fallback(v) returns has fallback v and
\* the attempts, delay and handler of the receiver; so along any chain of
\* builder calls.
C9_BuildersCarryOver ==
    \A k \in DOMAIN engines :
        made[k].op # "new" =>
            LET recv == engines[made[k].recv]
            IN /\ engines[k].kind = recv.kind
               /\ engines[k].attempts = recv.attempts
               /\ engines[k].delayms = recv.delayms
               /\ made[k].op = "onError" =>
                      /\ engines[k].cfg.onError = made[k].handler
                      /\ engines[k].cfg.fallback = recv.cfg.fallback
               /\ made[k].op = "fallback" =>
                      /\ engines[k].cfg.fallback = made[k].value
                      /\ engines[k].cfg.onError = recv.cfg.onError

C9_Witness ==
    /\ Len(engines) = 3
    /\ engines[1].kind = "RetryAsync" /\ engines[1].delayms = {MaxDelay}
    /\ made[2].op = "fallback" /\ made[2].recv = 1 /\ made[2].value = "fb2"
    /\ made[3].op = "onError" /\ made[3].recv = 2
    /\ engines[3].cfg.fallback = "fb2"
    /\ engines[3].cfg.onError = made[3].handler
    /\ engines[3].delayms = {MaxDelay}

----------------------------------------------------------------------------
(* C10 *)

\* The delay the engine was configured with, in milliseconds.
TheDelay == CHOOSE d \in This.delayms : TRUE

\* C10: in RetryAsync.run with a positive delay d configured, a unit of work
\* that always retries meets exactly n - 1 delays of d, one after each of the
\* attempts 1..n-1 and none after attempt n: the delay inserted in all is
\* (n - 1) * d, which is less than n * d.
C10_DelaysBetweenAttempts ==
    (This.kind = "RetryAsync" /\ This.delayms # {} /\ AlwaysRetries) =>
        /\ \A j \in DOMAIN run.delays : run.delays[j] = j /\ j <= Count - 1
        /\ run.elapsed <= (Count - 1) * TheDelay
        /\ Done => /\ Len(run.delays) = Count - 1
                   /\ run.elapsed = (Count - 1) * TheDelay
                   /\ run.elapsed < Count * TheDelay

C10_Witness ==
    /\ This.kind = "RetryAsync" /\ This.delayms = {MaxDelay} /\ AlwaysRetries
    /\ Done
    /\ Count = MaxAttempts
    /\ run.delays = [j \in 1..(MaxAttempts - 1) |-> j]
    /\ run.elapsed = (MaxAttempts - 1) * MaxDelay

----------------------------------------------------------------------------
(* C11 *)

\* What the caller of run got from RunOk.unwrap and RunError.unwrap.
TheUnwrapped == CHOOSE u \in unwrapped : TRUE

\* C11: RunOk.unwrap throws on a failure result and RunError.unwrap throws on
\* a success result, each hands out the payload of the matching variant
\* unchanged, so that of the two unwraps of a result returned by run exactly
\* one succeeds, the one the ok discriminant selects.
C11_ExactlyOneUnwrap ==
    unwrapped # {} =>
        /\ TheUnwrapped.ok.throws # TheUnwrapped.error.throws
        /\ run.result.ok =>
              /\ TheUnwrapped.ok = Gives(fn[Len(FnCalls)].arg)
              /\ TheUnwrapped.ok.payload = run.result.value
              /\ TheUnwrapped.error = Raises("Error: Run error cannot unwrap ok variant")
        /\ ~run.result.ok =>
              /\ TheUnwrapped.error = Gives(run.result.error)
              /\ TheUnwrapped.ok = Raises("Error: Run ok cannot unwrap error variant")

C11_Witness ==
    /\ unwrapped # {}
    /\ run.result = RunError("fb2")
    /\ TheUnwrapped.error = Gives("fb2")
    /\ TheUnwrapped.ok.throws
    /\ This.kind = "RetryAsync"

----------------------------------------------------------------------------
(* C12 *)

\* Every attempt of the unit of work either returns the retry signal or
\* throws, and every answer the handler has given so far is a retry.
RetryOrHandledThrow ==
    /\ ~NoHandler
    /\ \A a \in 1..Count : Does(a, "retry") \/ Does(a, "throw")
    /\ \A j \in DOMAIN OnErrorCalls : OnErrorCalls[j].attempt < TheHandler.retryBelow

\* C12: with a handler configured, a run in which every attempt either returns
\* the retry signal or throws a fault the handler answers with retry, in any
\* mix, ends normally after exactly n = attempts invocations of the unit of
\* work, the handler having been invoked once per throwing attempt, and returns
\* the failure result carrying exactly the configured fallback.
C12_MixedRetriesExhaust ==
    RetryOrHandledThrow =>
        /\ Len(FnCalls) <= Count
        /\ Done => /\ run.pc = "returned"
                   /\ InvokedInOrder(Count)
                   /\ Len(OnErrorCalls) = Cardinality({a \in 1..Count : Does(a, "throw")})
                   /\ run.result = RunError(ConfiguredFallback)

C12_Witness ==
    /\ RetryOrHandledThrow /\ Done
    /\ Count = MaxAttempts
    /\ Does(1, "throw") /\ Does(2, "retry") /\ Does(MaxAttempts, "throw")
    /\ TheHandler.retryBelow = MaxAttempts /\ TheHandler.otherwise = "throw"
    /\ Len(OnErrorCalls) = 2
    /\ This.kind = "RetryAsync"
    /\ run.result = RunError("fb1")

----------------------------------------------------------------------------
(* C13 *)

\* The handler's call for the fault of attempt k, as the engine made it.
OnErrorCallAt(k) ==
    run.calls[CHOOSE j \in DOMAIN run.calls :
                  /\ run.calls[j].who = "onError"
                  /\ j > 1 /\ run.calls[j - 1] = Call("fn", k, Undefined)]

\* C13: when the handler stops the run at the fault of attempt k, ctx.stop()
\* and ctx.stop(undefined) make run return the failure result whose error is
\* the raw fault the unit of work threw on attempt k, the one the handler was
\* given as ctx.error, and ctx.stop(e) with e defined makes it return the
\* failure result whose error is e.
C13_StopDefaultsToFault ==
    \A k \in 1..Count :
        StoppedAt(k) =>
            /\ run.pc = "returned" /\ ~run.result.ok
            /\ OnErrorCallAt(k).error = fn[k].arg
            /\ TheHandler.arg = Undefined => run.result.error = fn[k].arg
            /\ TheHandler.arg # Undefined => run.result.error = TheHandler.arg

C13_Witness ==
    /\ StoppedAt(2) /\ Count = MaxAttempts
    /\ fn[1] = Do("throw", "f1") /\ fn[2] = Do("throw", "f2")
    /\ TheHandler.arg = Undefined
    /\ ConfiguredFallback = "fb1"
    /\ run.result = RunError("f2")
    /\ This.kind = "Retry"

----------------------------------------------------------------------------
(* C15 *)

\* C15: the handler is invoked right after the attempt whose fault it is
\* given; for the fault of attempt a, numbered from 1 as the unit of work sees
\* it, the handler's context carries attempt a - 1 and the raw fault thrown on
\* attempt a. A handler retrying on the faults of attempts 1..m observes the
\* attempt numbers 0, 1, ..., m - 1, in Retry and in RetryAsync.
C15_HandlerAttemptZeroBased ==
    /\ \A j \in DOMAIN run.calls :
           run.calls[j].who = "onError" =>
               /\ j > 1 /\ run.calls[j - 1].who = "fn"
               /\ Does(run.calls[j - 1].attempt, "throw")
               /\ run.calls[j].attempt = run.calls[j - 1].attempt - 1
               /\ run.calls[j].error = fn[run.calls[j - 1].attempt].arg
    /\ AlwaysThrows =>
           /\ \A j \in DOMAIN OnErrorCalls : OnErrorCalls[j].attempt = j - 1
           /\ (Done /\ HandlerAlwaysRetries) => Len(OnErrorCalls) = Count

C15_Witness ==
    /\ Done /\ Count = MaxAttempts
    /\ AlwaysThrows /\ HandlerAlwaysRetries
    /\ fn[1].arg = "f2" /\ fn[MaxAttempts].arg = "f1"
    /\ run.calls[2] = Call("onError", 0, "f2")
    /\ run.calls[2 * MaxAttempts] = Call("onError", MaxAttempts - 1, "f1")
    /\ This.kind = "RetryAsync"

----------------------------------------------------------------------------
(* C16 *)

\* The unit of work was invoked for attempt a and the engine has its outcome.
Settled(a) ==
    /\ a \in 1..Len(FnCalls)
    /\ (a < Len(FnCalls) \/ run.pc # "await_fn")

\* Attempt a ended with the unit of work returning a result that is not ok:
\* the retry signal, with or without an error payload of its own.
ReturnedRetry(a) == Settled(a) /\ (Does(a, "retry") \/ Does(a, "error"))

\* The attempts the run has started a delay after.
Delayed == {run.delays[j] : j \in DOMAIN run.delays}

\* C16: in RetryAsync.run with a delay configured, a delay is started after an
\* attempt if and only if the unit of work returned a retry signal on it and it
\* is not the last attempt; no delay follows an attempt whose unit of work
\* threw, whatever the handler answered, so that the next attempt starts at
\* once. The delays of a finished run are as many as its attempts before the
\* last on which the unit of work returned a retry signal.
C16_DelayOnlyAfterReturnedRetry ==
    (This.kind = "RetryAsync" /\ This.delayms # {}) =>
        /\ \A j \in DOMAIN run.delays :
               /\ ReturnedRetry(run.delays[j]) /\ run.delays[j] < Count
               /\ \A k \in DOMAIN run.delays : j < k => run.delays[j] < run.delays[k]
        /\ \A a \in 1..(Count - 1) : ReturnedRetry(a) => a \in Delayed
        /\ \A a \in 1..Count : (Settled(a) /\ Does(a, "throw")) => a \notin Delayed
        /\ \A j \in DOMAIN run.calls :
               (j > 1 /\ run.calls[j].who = "fn" /\ run.calls[j - 1].who = "onError")
                   => run.calls[j].attempt - 1 \notin Delayed
        /\ Done => /\ Len(run.delays) =
                          Cardinality({a \in 1..(Count - 1) : ReturnedRetry(a)})
                   /\ run.elapsed = Len(run.delays) * TheDelay

C16_Witness ==
    /\ This.kind = "RetryAsync" /\ This.delayms = {MaxDelay}
    /\ Done /\ Count = MaxAttempts
    /\ Does(1, "throw") /\ Does(2, "retry") /\ Does(MaxAttempts, "retry")
    /\ HandlerAlwaysRetries
    /\ run.delays = <<2>>
    /\ run.elapsed = MaxDelay
    /\ Len(run.calls) = MaxAttempts + 1

----------------------------------------------------------------------------
(* C17 *)

\* The await the run is suspended at is the one its last call or delay began.
SuspendedAtItsAwait ==
    /\ run.pc \in {"idle", "await_fn", "await_delay", "await_onError", "returned", "threw"}
    /\ run.pc = "idle" => run.calls = <<>>
    /\ run.pc = "await_fn" =>
           /\ run.calls # <<>> /\ run.calls[Len(run.calls)].who = "fn"
           /\ run.calls[Len(run.calls)].attempt = Len(FnCalls)
    /\ run.pc = "await_onError" =>
           /\ run.calls # <<>> /\ run.calls[Len(run.calls)].who = "onError"
    /\ run.pc = "await_delay" =>
           /\ run.delays # <<>> /\ run.delays[Len(run.delays)] = Len(FnCalls)
    /\ This.delayms # {} =>
           run.elapsed = TheDelay * (Len(run.delays) - IF run.pc = "await_delay" THEN 1 ELSE 0)

\* The step invokes the unit of work for attempt a + 1 only as the resumption
\* of the last await attempt a is suspended at.
InvokesNextAfter(a) ==
    /\ Len(FnCalls') = a + 1
    /\ FnCalls'[a + 1].attempt = a + 1
    /\ run'.pc = "await_fn"
    /\ a = 0 => run.pc = "idle"
    /\ a > 0 => /\ run.pc \in {"await_fn", "await_delay", "await_onError"}
                /\ Len(OnErrorCalls') = Len(OnErrorCalls)
                /\ a \in Delayed' => /\ run.pc = "await_delay"
                                     /\ run'.elapsed = run.elapsed + TheDelay
                /\ run.calls[Len(run.calls)].who = "onError" => run.pc = "await_onError"

\* C17: within one RetryAsync.run at most one attempt is in progress: the run
\* is suspended at one await at a time, that of the unit of work, of the fault
\* handler or of the delay, and the unit of work of attempt a + 1 is invoked
\* only once the unit of work of attempt a has settled, the handler invoked for
\* its fault, if any, has settled, and the delay started after it, if any, has
\* elapsed.
C17_OneAttemptAtATime ==
    /\ [](This.kind = "RetryAsync" => SuspendedAtItsAwait)
    /\ [][(This.kind = "RetryAsync" /\ Len(FnCalls') # Len(FnCalls))
              => InvokesNextAfter(Len(FnCalls))]_vars

C17_Witness ==
    /\ This.kind = "RetryAsync" /\ This.delayms = {MaxDelay}
    /\ ~NoHandler
    /\ Count = MaxAttempts
    /\ run.calls = <<Call("fn", 1, Undefined), Call("fn", 2, Undefined),
                     Call("onError", 1, "f1"), Call("fn", 3, Undefined)>>
    /\ run.delays = <<1>>
    /\ run.pc = "await_fn"

----------------------------------------------------------------------------
(* C18 *)

\* The blocking engine built with the count, the handler and the fallback of
\* the engine of the run.
BlockingTwin ==
    LET e0 == Retry_new(Config({This.attempts}, {}))
        e1 == IF NoHandler THEN e0 ELSE Retry_onError(e0, TheHandler).ret
    IN Retry_fallback(e1, This.cfg.fallback).ret

\* C18: a RetryAsync.run makes, in the same order and with the same context
\* attempt numbers and faults, the calls of the unit of work and of the handler
\* that Retry.run makes for the same count, fallback, handler and unit of work,
\* and ends as Retry.run does: with the same result, or with the same fault
\* thrown by the handler. The delays and the suspension points are all that
\* differs.
C18_AsyncRefinesBlocking ==
    This.kind = "RetryAsync" =>
        LET s == Retry_run(BlockingTwin, fn)
        IN /\ Len(run.calls) <= Len(s.calls)
           /\ \A j \in DOMAIN run.calls : run.calls[j] = s.calls[j]
           /\ Done => /\ run.calls = s.calls
                      /\ (run.pc = "threw") = (s.next = "throw")
                      /\ run.pc = "returned" => run.result = s.result
                      /\ run.pc = "threw" => run.fault = s.fault

C18_Witness ==
    /\ This.kind = "RetryAsync" /\ This.delayms = {MaxDelay}
    /\ Count = MaxAttempts
    /\ Does(1, "error") /\ Does(2, "throw") /\ Does(MaxAttempts, "throw")
    /\ run.pc = "threw" /\ run.fault = "g1"
    /\ Len(OnErrorCalls) = 2
    /\ run.delays = <<1>>
    /\ Retry_run(BlockingTwin, fn).fault = "g1"

----------------------------------------------------------------------------
(* C19 *)

\* C19: provided every callback invoked settles and every delay elapses, a run
\* reaches a terminal outcome: it returns a success or a failure result, or it
\* throws the fault of its handler; the outcome once reached is final and no
\* callback is invoked after it. At every moment the unit of work has been
\* invoked at most attempts times and the handler at most as many times as the
\* unit of work.
C19_RunTerminates ==
    /\ <>Done
    /\ [](/\ Len(FnCalls) <= Count
          /\ Len(OnErrorCalls) <= Len(FnCalls)
          /\ run.pc = "threw" => (~NoHandler /\ run.fault = TheHandler.arg))
    /\ [][Done => run' = run]_vars

C19_Witness ==
    /\ run.pc = "threw"
    /\ This.kind = "RetryAsync" /\ This.delayms = {MaxDelay}
    /\ Count = MaxAttempts
    /\ Len(FnCalls) = MaxAttempts /\ Len(OnErrorCalls) = 1
    /\ run.delays = [j \in 1..(MaxAttempts - 1) |-> j]

----------------------------------------------------------------------------
(* C20 *)

\* The unit of work with ctx.retry() in place of every failure result that
\* carries an error of its own.
PlainFn ==
    [a \in DOMAIN fn |-> IF fn[a].do = "error" THEN Do("retry", Undefined) ELSE fn[a]]

\* The errors the unit of work returns in its failure results.
WorkErrors == {fn[a].arg : a \in {b \in DOMAIN fn : fn[b].do = "error"}}

\* C20: a result of the unit of work that is not ok is a retry signal to the
\* engine whatever error it carries: the run makes the calls and ends with the
\* result it would with ctx.retry() in its place. The error is dropped: a
\* failure result returned by run carries the configured fallback or the error
\* of the handler's stop signal, never an error returned by the unit of work,
\* in Retry and in RetryAsync.
C20_WorkErrorIsRetry ==
    /\ (run.pc = "returned" /\ ~run.result.ok) =>
           /\ run.result.error \notin WorkErrors
           /\ \/ /\ run.result.error = ConfiguredFallback
                 /\ Len(FnCalls) = Count
              \/ \E k \in 1..Count : StoppedAt(k) /\ run.result.error = StopError(k)
    /\ \A a \in 1..(Count - 1) :
           (Done /\ Settled(a) /\ Does(a, "error")) => Len(FnCalls) > a
    /\ Done => LET p == Retry_run(BlockingTwin, PlainFn)
               IN /\ run.calls = p.calls
                  /\ run.result = p.result
                  /\ run.fault = p.fault

C20_Witness ==
    /\ Done /\ Count = MaxAttempts
    /\ This.kind = "Retry"
    /\ Does(1, "error") /\ Does(2, "retry") /\ Does(MaxAttempts, "error")
    /\ Len(FnCalls) = MaxAttempts
    /\ ConfiguredFallback = "fb2"
    /\ run.result = RunError("fb2")

----------------------------------------------------------------------------
(* C14 *)

\* The run r of the unit of work f on the engine self goes as it would with no
\* other run in flight: its calls so far are the first calls of that run, the
\* unit of work sees ctx.attempt = 1, 2, ... and is invoked at most attempts
\* times, and once over it has the outcome of that run.
AsAlone(self, f, r) ==
    LET alone == RetryAsync_run(self, f, [Idle EXCEPT !.this = r.this])
        fns == SelectSeq(r.calls, LAMBDA c : c.who = "fn")
    IN /\ Len(r.calls) <= Len(alone.calls)
       /\ \A j \in DOMAIN r.calls : r.calls[j] = alone.calls[j]
       /\ \A j \in DOMAIN fns : fns[j].attempt = j
       /\ Len(fns) <= self.attempts \div 10
       /\ r.pc \in {"returned", "threw"} => r = alone

\* C14: two invocations of run on the same RetryAsync engine, resumed in any
\* order at their awaits, are independent: each sees its own attempt numbers
\* 1, 2, ... in order, invokes its own unit of work at most attempts times and
\* ends with the result it has when run alone; no step of a run changes the
\* engine.
C14_RunsIndependent ==
    /\ [](AsAlone(This, fn, run) /\ AsAlone(Their, peer.fn, peer.run))
    /\ [][engines' = engines]_vars

C14_Witness ==
    /\ run.this = peer.run.this
    /\ This.delayms = {MaxDelay} /\ This.cfg.fallback = "fb1" /\ ~NoHandler
    /\ fn = <<Do("throw", "f1"), Do("ok", "v1")>>
    /\ peer.fn = <<Do("retry", Undefined), Do("error", "e1")>>
    /\ run.result = RunOk("v1") /\ run.pc = "returned"
    /\ peer.run.result = RunError("fb1") /\ peer.run.pc = "returned"
    /\ peer.run.delays = <<1>>

----------------------------------------------------------------------------
(* C21 *)

\* The handler was invoked for the fault of attempt k and threw a fault of its
\* own (which has reached the engine).
HandlerThrewAt(k) ==
    /\ ~NoHandler
    /\ \E j \in DOMAIN run.calls :
          /\ run.calls[j].who = "onError"
          /\ j > 1 /\ run.calls[j - 1] = Call("fn", k, Undefined)
          /\ TheHandler.otherwise = "throw"
          /\ run.calls[j].attempt >= TheHandler.retryBelow
          /\ (j < Len(run.calls) \/ run.pc # "await_onError")

\* C21: a fault thrown by the handler, or the rejection of what it returns, is
\* not caught by the engine: run ends by throwing that fault at the attempt
\* whose fault the handler was given, the handler's call is the last call of
\* the run and was made for the fault of the unit of work, no further attempt
\* is made and no result, the fallback least of all, is returned, in Retry and
\* in RetryAsync.
C21_HandlerFaultPropagates ==
    /\ \A k \in 1..Count :
           HandlerThrewAt(k) =>
               /\ run.pc = "threw"
               /\ run.fault = TheHandler.arg
               /\ InvokedInOrder(k)
               /\ run.calls[Len(run.calls)] = Call("onError", k - 1, fn[k].arg)
               /\ Len(OnErrorCalls) = Cardinality({a \in 1..k : Does(a, "throw")})
               /\ run.result # RunError(ConfiguredFallback)
    /\ run.pc = "threw" => \E k \in 1..Count : HandlerThrewAt(k)

C21_Witness ==
    /\ HandlerThrewAt(2) /\ Count = MaxAttempts
    /\ fn[1] = Do("throw", "f1") /\ fn[2] = Do("throw", "f2")
    /\ TheHandler.arg = "g2"
    /\ ConfiguredFallback = "fb1"
    /\ run.pc = "threw" /\ run.fault = "g2"
    /\ Len(run.calls) = 4
    /\ This.kind = "Retry"

----------------------------------------------------------------------------
(* C22 *)

\* What run does on the engine self with the unit of work f, from its entry to
\* its end.
RunOf(self, f) ==
    IF self.kind = "Retry"
    THEN Retry_run(self, f)
    ELSE LET r == RetryAsync_run(self, f, Idle)
         IN [next |-> IF r.pc = "threw" THEN "throw" ELSE "return",
             result |-> r.result, fault |-> r.fault, calls |-> r.calls]

\* Units of work that have every engine use its handler and its fallback.
ThrowFn == [a \in 1..(MaxAttempts + 1) |-> Do("throw", "f1")]
ProbeFns == {RetryFn, ThrowFn}

\* C22: onError and fallback commute: for every engine e, handler h and
\* fallback v, e.onError(h).fallback(v) and e.fallback(v).onError(h) are
\* engines of the same class, attempts, delay, handler and fallback, and run
\* alike; of two onError calls in a row the second handler is kept, of two
\* fallback calls the second fallback.
C22_BuildersCommute ==
    \A e \in DOMAIN engines :
        \A h \in BuilderHandlers, v \in Fallbacks :
            LET hv == Fallback(OnError(engines[e], h).ret, v).ret
                vh == OnError(Fallback(engines[e], v).ret, h).ret
            IN /\ hv = vh
               /\ hv.cfg = [fallback |-> v, onError |-> {h}]
               /\ hv.attempts = engines[e].attempts
               /\ hv.delayms = engines[e].delayms
               /\ \A f \in ProbeFns : RunOf(hv, f) = RunOf(vh, f)
               /\ \A h2 \in BuilderHandlers :
                      OnError(OnError(engines[e], h).ret, h2).ret
                          = OnError(engines[e], h2).ret
               /\ \A v2 \in Fallbacks :
                      Fallback(Fallback(engines[e], v).ret, v2).ret
                          = Fallback(engines[e], v2).ret

C22_Witness ==
    /\ Len(engines) = 3
    /\ engines[1].kind = "RetryAsync" /\ engines[1].delayms = {MaxDelay}
    /\ made[2].op = "onError" /\ made[2].recv = 1
    /\ made[3].op = "fallback" /\ made[3].recv = 2 /\ made[3].value = "fb1"
    /\ engines[3] = OnError(Fallback(engines[1], "fb1").ret,
                            CHOOSE h \in made[2].handler : TRUE).ret
    /\ engines[3].cfg.fallback = "fb1" /\ engines[3].cfg.onError = made[2].handler

====
